---- MODULE Spec2Model ----
(***************************************************************************)
(* A model of capi/examples/server.c: an epoll event loop that drives the  *)
(* hyper HTTP engine through its C API.  The host program (setup, the      *)
(* executor pump, the accept drain, the signal intake, the readiness to    *)
(* waker fan-out, the two I/O callbacks, record creation and destruction)  *)
(* is translated from server.c.  The engine behind hyper.h and the kernel  *)
(* (sockets, the listen backlog, the signal source, epoll readiness) are   *)
(* the environment.                                                        *)
(***************************************************************************)
EXTENDS Integers, Sequences, FiniteSets, TLC

\* ------------------------------------------------------------- bounds
\* Connections accepted over one run (one Connection Record and one task each).
MaxConns == 2
\* Resumption handles of one callback of one record that exist at one time.
MaxHandles == 2
\* Tasks the engine completes on its own account (no user-data).
MaxInternal == 1
\* System calls that fail over one run (setup calls, accept, fcntl, epoll_ctl,
\* epoll_wait, the read of the signal descriptor).
MaxFaults == 1
\* would-block returns of one callback on one record with no completed call between
MaxPending == 3
\* connections offered while the runs of pending returns are tallied
TallyConns == 1

\* ---------------------------------------------------- program constants
\* static const int MAX_EVENTS = 128;
MAX_EVENTS == 128

\* Descriptor numbers.  0..2 are the standard streams; the listening socket, the
\* signalfd and the epoll instance take the next three; accepted sockets follow.
LISTEN_SOCK == 3
SIGNAL_SOCK == 4
FIRST_CONN_FD == 6

NULL == 0

ConnIds == 1..MaxConns
TaskIds == 1..(MaxConns + MaxInternal)
ConnFds == FIRST_CONN_FD..(FIRST_CONN_FD + MaxConns - 1)

\* The system calls of setup that can fail, in program order.
SetupCalls ==
    {"getaddrinfo", "socket", "setsockopt", "bind", "fcntl_nonblock",
     "fcntl_cloexec", "listen", "signalfd", "sigprocmask", "epoll_create1",
     "epoll_ctl_listen", "epoll_ctl_signal"}

\* The setup failures the program is documented to abort on.
FatalSetupCalls == SetupCalls \ {"setsockopt"}

Signals == {"SIGINT", "SIGTERM", "SIGQUIT", "SIGUSR1"}

VARIABLES
    pc,           \* position of main: setup, pump, wait, fanout, exited, crashed
    exitStatus,   \* the value main returned; -1 while it runs
    exitVia,      \* which return statement ended main
    listen_fd,    \* main's listen_fd
    signal_fd,    \* main's signal_fd
    setupFailed,  \* whether a setup call the program must abort on was made and failed
    teardown,     \* the release calls made after the EXIT label, in order
    log,          \* the perror or warning of the last program step, if any
    errno,        \* errno as the failed system call of the last step left it
    ops,          \* the handle operations of the last step
    backlog,      \* kernel: what the descriptor registered as the listener has pending
    sigq,         \* kernel: the record the signal descriptor will yield
    sock,         \* kernel: per accepted connection, its socket
    faults,       \* kernel: how many system calls have failed
    nconn,        \* accepts that returned a descriptor so far
    conn,         \* the Connection Records (conn_data), by accept number
    task,         \* the engine's tasks
    handle,       \* the resumption handles (hyper_waker) in existence, per record
                  \* and callback, whether one was misused, and the tally of the
                  \* current run of pending returns of that callback
    cur,          \* engine: the task whose future is being polled, or NULL
    events,       \* the events of the current epoll_wait batch not yet handled
    tally         \* whether the runs of pending returns are tallied (fixed from the start)

vars == <<pc, exitStatus, exitVia, listen_fd, signal_fd, tally, setupFailed, teardown,
          log, errno, ops, backlog, sigq, sock, faults, nconn, conn, task, handle, cur, events>>

progVars == <<pc, exitStatus, exitVia, listen_fd, signal_fd, tally, setupFailed, teardown,
              log, errno, ops>>
kernVars == <<backlog, sigq, sock, faults>>
hostVars == <<nconn, conn, task, handle, cur, events>>

\* ------------------------------------------------------------- setup

\* listen_on(host, port), lines 40-110.  F is the set of calls that fail.
\* Every candidate address fails alike, so sock stays -1 when socket or bind fails.
listen_on(F) ==
    IF "getaddrinfo" \in F THEN -1
    ELSE IF "socket" \in F \/ "bind" \in F THEN -1
    ELSE IF "fcntl_nonblock" \in F THEN -1
    ELSE IF "fcntl_cloexec" \in F THEN 1
    ELSE IF "listen" \in F THEN -1
    ELSE LISTEN_SOCK

\* The calls listen_on reaches when the calls in F fail.
listen_on_calls(F) ==
    IF "getaddrinfo" \in F THEN {"getaddrinfo"}
    ELSE IF "socket" \in F THEN {"getaddrinfo", "socket"}
    ELSE IF "bind" \in F THEN {"getaddrinfo", "socket", "setsockopt", "bind"}
    ELSE IF "fcntl_nonblock" \in F
         THEN {"getaddrinfo", "socket", "setsockopt", "bind", "fcntl_nonblock"}
    ELSE IF "fcntl_cloexec" \in F
         THEN {"getaddrinfo", "socket", "setsockopt", "bind", "fcntl_nonblock",
               "fcntl_cloexec"}
    ELSE {"getaddrinfo", "socket", "setsockopt", "bind", "fcntl_nonblock",
          "fcntl_cloexec", "listen"}

\* register_signal_handler(), lines 114-131.
register_signal_handler(F) ==
    IF "signalfd" \in F THEN 1
    ELSE IF "sigprocmask" \in F THEN 1
    ELSE SIGNAL_SOCK

register_signal_handler_calls(F) ==
    IF "signalfd" \in F THEN {"signalfd"} ELSE {"signalfd", "sigprocmask"}

\* main's test of a setup result, lines 249, 254, 260.
SetupResultBad(fd) == fd < 0

\* EPOLL_CTL_ADD of the signal descriptor, line 278: it fails when the kernel
\* refuses it, and with EEXIST when the same descriptor is already in the set.
AddSignalFails(F, lfd, sfd) == "epoll_ctl_signal" \in F \/ sfd = lfd

\* The calls main's setup reaches when the calls in F fail, lines 247-281.
setup_calls(F) ==
    LET lfd == listen_on(F)
        sfd == register_signal_handler(F)
        c1  == listen_on_calls(F)
        c2  == c1 \cup register_signal_handler_calls(F)
    IN  IF SetupResultBad(lfd) THEN c1
        ELSE IF SetupResultBad(sfd) THEN c2
        ELSE IF "epoll_create1" \in F THEN c2 \cup {"epoll_create1"}
        ELSE IF "epoll_ctl_listen" \in F
             THEN c2 \cup {"epoll_create1", "epoll_ctl_listen"}
        ELSE c2 \cup {"epoll_create1", "epoll_ctl_listen", "epoll_ctl_signal"}

\* Whether main returns 1 out of setup, lines 249-281.
SetupAborts(F) ==
    LET lfd == listen_on(F)
        sfd == register_signal_handler(F)
    IN  \/ SetupResultBad(lfd)
        \/ SetupResultBad(sfd)
        \/ "epoll_create1" \in F
        \/ "epoll_ctl_listen" \in F
        \/ AddSignalFails(F, lfd, sfd)

\* main, lines 247-290, as one step.
Setup ==
    /\ pc = "setup"
    /\ \E F \in SUBSET SetupCalls :
         LET lfd == listen_on(F)
         IN  /\ F \subseteq setup_calls(F)
             /\ Cardinality(F) <= MaxFaults
             /\ faults' = Cardinality(F)
             /\ listen_fd' = lfd
             /\ signal_fd' = IF SetupResultBad(lfd) THEN signal_fd
                             ELSE register_signal_handler(F)
             /\ setupFailed' = (F \cap setup_calls(F) \cap FatalSetupCalls # {})
             /\ IF SetupAborts(F)
                THEN pc' = "exited" /\ exitStatus' = 1 /\ exitVia' = "setup"
                ELSE pc' = "pump" /\ exitStatus' = -1 /\ exitVia' = "none"
    /\ log' = "none"
    /\ errno' = "none"
    /\ ops' = {}
    /\ UNCHANGED <<tally, teardown, backlog, sigq, sock, hostVars>>

\* -------------------------------------------------------- initial state

NoConn == [st |-> "none", fd |-> -1, read_waker |-> NULL, write_waker |-> NULL,
           dlog |-> <<>>]
NoSock == [fd |-> -1, open |-> FALSE, reg |-> FALSE, rd |-> "idle", wr |-> FALSE,
           adds |-> 0, dels |-> 0]
NoTask == [st |-> "none", type |-> "none", io |-> NULL, ud |-> NULL, tlog |-> <<>>]
HandleIds == 1..MaxHandles
NoHandle == [live |-> FALSE, wakes |-> 0, frees |-> 0]
NoRun == [np |-> 0, nf |-> 0, nw |-> 0, stale |-> FALSE]
NoSlot == [h |-> [i \in HandleIds |-> NoHandle], misuse |-> FALSE, run |-> NoRun]
NoHandles == [r |-> NoSlot, w |-> NoSlot]

Start ==
    /\ pc = "setup"
    /\ exitStatus = -1
    /\ exitVia = "none"
    /\ listen_fd = -1
    /\ signal_fd = -1
    /\ setupFailed = FALSE
    /\ teardown = <<>>
    /\ log = "none"
    /\ errno = "none"
    /\ ops = {}
    /\ backlog = 0
    /\ sigq = "none"
    /\ sock = [c \in ConnIds |-> NoSock]
    /\ faults = 0
    /\ nconn = 0
    /\ conn = [c \in ConnIds |-> NoConn]
    /\ task = [t \in TaskIds |-> NoTask]
    /\ handle = [c \in ConnIds |-> NoHandles]
    /\ cur = NULL
    /\ events = {}

Init == Start /\ tally = FALSE

\* ------------------------------------------------------------- kernel

\* read(fd) on a non-blocking socket: what it can return in socket state s, and
\* the state it leaves.  ret >= 0 is a byte count, ret = -1 a failure with errno.
ReadOutcomes(s) ==
    CASE s.rd = "idle" -> {[ret |-> -1, errno |-> "EAGAIN", rd |-> "idle"]}
      [] s.rd = "data" -> {[ret |-> 1, errno |-> "none", rd |-> "idle"],
                           [ret |-> 1, errno |-> "none", rd |-> "data"]}
      [] s.rd = "hup"  -> {[ret |-> 0, errno |-> "none", rd |-> "hup"],
                           [ret |-> -1, errno |-> "ECONNRESET", rd |-> "hup"]}

\* write(fd) on a non-blocking socket.
WriteOutcomes(s) ==
    IF s.rd = "hup"
    THEN {[ret |-> 1, errno |-> "none", wr |-> TRUE],
          [ret |-> -1, errno |-> "EPIPE", wr |-> TRUE]}
    ELSE IF s.wr
    THEN {[ret |-> 1, errno |-> "none", wr |-> TRUE],
          [ret |-> 1, errno |-> "none", wr |-> FALSE]}
    ELSE {[ret |-> -1, errno |-> "EAGAIN", wr |-> FALSE]}

\* The lowest descriptor number no accepted socket holds open.
OpenFds == {sock[c].fd : c \in {x \in ConnIds : sock[x].open}}
FreeFds == ConnFds \ OpenFds
LowestFreeFd == CHOOSE f \in FreeFds : \A g \in FreeFds : f <= g

\* --------------------------------------------------------- I/O adapter

\* A read_cb that overwrites the stored handle without freeing it.
read_cb_leak(rec, sys, h) ==
    IF sys.ret >= 0
    THEN [ret |-> "bytes", n |-> sys.ret, rec |-> rec, freed |-> NULL, took |-> FALSE]
    ELSE IF sys.errno # "EAGAIN"
    THEN [ret |-> "HYPER_IO_ERROR", n |-> 0, rec |-> rec, freed |-> NULL, took |-> FALSE]
    ELSE [ret |-> "HYPER_IO_PENDING", n |-> 0,
          rec |-> [rec EXCEPT !.read_waker = h],
          freed |-> NULL, took |-> TRUE]

\* read_cb, lines 133-153, on record rec, the read having returned sys, and h
\* the handle hyper_context_waker(ctx) would give.  The result names the
\* return value, the record afterwards, the handle freed and whether h was taken.
read_cb(rec, sys, h) ==
    IF sys.ret >= 0
    THEN [ret |-> "bytes", n |-> sys.ret, rec |-> rec, freed |-> NULL, took |-> FALSE]
    ELSE IF sys.errno # "EAGAIN"
    THEN [ret |-> "HYPER_IO_ERROR", n |-> 0, rec |-> rec, freed |-> NULL, took |-> FALSE]
    ELSE [ret |-> "HYPER_IO_PENDING", n |-> 0,
          rec |-> [rec EXCEPT !.read_waker = h],
          freed |-> rec.read_waker, took |-> TRUE]

\* A write_cb that stores its handle in the read slot.
write_cb_read_slot(rec, sys, h) ==
    IF sys.ret >= 0
    THEN [ret |-> "bytes", n |-> sys.ret, rec |-> rec, freed |-> NULL, took |-> FALSE]
    ELSE IF sys.errno # "EAGAIN"
    THEN [ret |-> "HYPER_IO_ERROR", n |-> 0, rec |-> rec, freed |-> NULL, took |-> FALSE]
    ELSE [ret |-> "HYPER_IO_PENDING", n |-> 0,
          rec |-> [rec EXCEPT !.read_waker = h],
          freed |-> rec.write_waker, took |-> TRUE]

\* A write_cb that installs the new handle without freeing the one it replaces.
write_cb_no_free(rec, sys, h) ==
    IF sys.ret >= 0
    THEN [ret |-> "bytes", n |-> sys.ret, rec |-> rec, freed |-> NULL, took |-> FALSE]
    ELSE IF sys.errno # "EAGAIN"
    THEN [ret |-> "HYPER_IO_ERROR", n |-> 0, rec |-> rec, freed |-> NULL, took |-> FALSE]
    ELSE [ret |-> "HYPER_IO_PENDING", n |-> 0,
          rec |-> [rec EXCEPT !.write_waker = h],
          freed |-> NULL, took |-> TRUE]

\* write_cb, lines 155-175.
write_cb(rec, sys, h) ==
    IF sys.ret >= 0
    THEN [ret |-> "bytes", n |-> sys.ret, rec |-> rec, freed |-> NULL, took |-> FALSE]
    ELSE IF sys.errno # "EAGAIN"
    THEN [ret |-> "HYPER_IO_ERROR", n |-> 0, rec |-> rec, freed |-> NULL, took |-> FALSE]
    ELSE [ret |-> "HYPER_IO_PENDING", n |-> 0,
          rec |-> [rec EXCEPT !.write_waker = h],
          freed |-> rec.write_waker, took |-> TRUE]

\* A handle is named by its record c, its callback k ("r" or "w") and a number
\* h >= 1 that no other handle of that callback and record has while it exists:
\* like an address, the number is free again once the handle is gone.
\* A handle is outstanding from hyper_context_waker until its first wake or free.
Outstanding(x) == x.live /\ x.wakes + x.frees = 0

\* A handle operation, as the last step's record of it.
Op(c, k, h, op) == [c |-> c, k |-> k, h |-> h, op |-> op]

\* One wake or free of handle h.  It is a misuse unless h is outstanding.  The
\* run of pending returns under way, if any, counts it.
WakerOp(S, h, op) ==
    [h |-> [S.h EXCEPT ![h] = [live |-> TRUE,
                               wakes |-> IF op = "wake" THEN @.wakes + 1 ELSE @.wakes,
                               frees |-> IF op = "free" THEN @.frees + 1 ELSE @.frees]],
     misuse |-> S.misuse \/ ~Outstanding(S.h[h]),
     run |-> IF S.run.np = 0 THEN S.run
             ELSE [S.run EXCEPT !.nw = IF op = "wake" THEN @ + 1 ELSE @,
                                !.nf = IF op = "free" THEN @ + 1 ELSE @]]

\* hyper_waker_free and hyper_waker_wake on the handle table; the program never
\* passes NULL.
WakerFree(H, c, k, h) == IF h = NULL THEN H ELSE [H EXCEPT ![c][k] = WakerOp(@, h, "free")]
WakerWake(H, c, k, h) == IF h = NULL THEN H ELSE [H EXCEPT ![c][k] = WakerOp(@, h, "wake")]

\* The number hyper_context_waker(ctx) gives the next handle of a slot.
NewHandle(S) ==
    IF \E i \in HandleIds : ~S.h[i].live
    THEN CHOOSE i \in HandleIds : ~S.h[i].live /\ \A j \in HandleIds : ~S.h[j].live => i <= j
    ELSE NULL

\* hyper_context_waker(ctx): handle h of callback k on record c comes into being.
WakerNew(H, c, k, h) ==
    [H EXCEPT ![c][k].h[h] = [live |-> TRUE, wakes |-> 0, frees |-> 0]]

\* A run of pending returns of callback k on record c begins with the first
\* would-block return after a completed call (or after the record was made) and
\* ends with the next call that completes.  Its tally: np pending returns, nf
\* handles freed, nw handles woken, and whether the slot still held a handle
\* of an earlier run when it began (had is the handle the slot held).
RunPending(H, c, k, had) ==
    IF ~tally THEN H
    ELSE [H EXCEPT ![c][k].run = IF @.np = 0
                                 THEN [np |-> 1, nf |-> 0, nw |-> 0, stale |-> had # NULL]
                                 ELSE [@ EXCEPT !.np = @ + 1]]
RunEnds(H, c, k) == [H EXCEPT ![c][k].run = NoRun]

\* A handle that was woken or freed exactly once, and that the record no longer
\* points to, is gone: ref is the handle the record's slot holds.
Settle(S, ref) ==
    [S EXCEPT !.h = [i \in HandleIds |->
        IF @[i].live /\ @[i].wakes + @[i].frees = 1 /\ i # ref THEN NoHandle ELSE @[i]]]

\* The handle table once the handles that are gone are dropped, given the records.
Settled(H, C) ==
    [c \in ConnIds |-> [r |-> Settle(H[c].r, C[c].read_waker),
                        w |-> Settle(H[c].w, C[c].write_waker)]]

\* ------------------------------------------------------------- engine

\* The handle the record c stores for callback k.
Stored(c, k) == IF k = "r" THEN conn[c].read_waker ELSE conn[c].write_waker

\* What the engine does with a task after a callback returned: the task's next
\* state and, when it completes, its terminal type.
EngineAfter(cb, r) ==
    CASE r.ret = "HYPER_IO_ERROR"   -> {[st |-> "complete", type |-> "HYPER_TASK_ERROR"]}
      [] r.ret = "HYPER_IO_PENDING" -> {[st |-> "ready", type |-> "none"],
                                        [st |-> "parked", type |-> "none"]}
      [] r.ret = "bytes" /\ cb = "read" /\ r.n = 0
                                    -> {[st |-> "complete", type |-> "HYPER_TASK_EMPTY"]}
      [] r.ret = "bytes" /\ cb = "read" /\ r.n > 0
                                    -> {[st |-> "ready", type |-> "none"],
                                        [st |-> "complete", type |-> "HYPER_TASK_ERROR"]}
      [] r.ret = "bytes" /\ cb = "write"
                                    -> {[st |-> "ready", type |-> "none"],
                                        [st |-> "complete", type |-> "HYPER_TASK_EMPTY"]}

\* A wake of handle h of record c puts the parked task that serves c back on
\* the run queue.
EngineWake(T, c, h) ==
    IF h # NULL /\ T[c].st = "parked" THEN [T EXCEPT ![c].st = "ready"] ELSE T

\* The engine polls one future at a time, and hands a task that completed back
\* before it polls another: task t can be polled now.
Pollable(t) ==
    /\ pc = "pump"
    /\ task[t].st = "ready"
    /\ cur \in {NULL, t}
    /\ \A u \in TaskIds : task[u].st # "complete"

\* The engine, inside hyper_executor_poll, calls read_cb or write_cb of a ready
\* task whose io carries a record.
Callback(t, cb) ==
    /\ Pollable(t)
    /\ task[t].io # NULL
    /\ LET c == task[t].io
           k == IF cb = "read" THEN "r" ELSE "w"
           h == NewHandle(handle[c][k])
       IN  \E sys \in (IF cb = "read" THEN ReadOutcomes(sock[c]) ELSE WriteOutcomes(sock[c])) :
             LET r == IF cb = "read" THEN read_cb(conn[c], sys, h)
                                     ELSE write_cb(conn[c], sys, h)
             IN  /\ r.took => h # NULL
                 /\ conn' = [conn EXCEPT ![c] = r.rec]
                 /\ sock' = IF cb = "read" THEN [sock EXCEPT ![c].rd = sys.rd]
                                           ELSE [sock EXCEPT ![c].wr = sys.wr]
                 /\ r.took => handle[c][k].run.np < MaxPending
                 /\ handle' = IF r.took
                              THEN Settled(WakerNew(WakerFree(
                                               RunPending(handle, c, k, Stored(c, k)),
                                               c, k, r.freed), c, k, h), conn')
                              ELSE IF r.ret = "bytes" THEN RunEnds(handle, c, k)
                              ELSE handle
                 /\ errno' = sys.errno
                 /\ ops' = (IF r.took /\ r.freed # NULL THEN {Op(c, k, r.freed, "free")}
                             ELSE {})
                            \cup (IF r.took THEN {Op(c, k, h, "new")} ELSE {})
                 /\ \E nx \in EngineAfter(cb, r) :
                      /\ task' = [task EXCEPT ![t].st = nx.st, ![t].type = nx.type]
                      /\ cur' = IF nx.st = "ready" THEN t ELSE NULL
    /\ log' = "none"
    /\ UNCHANGED <<pc, exitStatus, exitVia, listen_fd, signal_fd, tally, setupFailed,
                   teardown, backlog, sigq, faults, nconn, events>>

ReadCb(t) == Callback(t, "read")
WriteCb(t) == Callback(t, "write")

\* The same call on a task whose io carries NULL (its record was never made):
\* conn->fd reads through a null pointer.  The process takes a SIGSEGV, or the
\* load yields a value that is no descriptor and the call fails with EBADF.
CallbackNull(t) ==
    /\ Pollable(t)
    /\ task[t].io = NULL
    /\ cur' = NULL
    /\ \/ /\ pc' = "crashed"
          /\ exitVia' = "sigsegv"
          /\ task' = task
       \/ /\ pc' = pc
          /\ exitVia' = exitVia
          /\ task' = [task EXCEPT ![t].st = "complete", ![t].type = "HYPER_TASK_ERROR"]
    /\ log' = "none"
    /\ errno' = "none"
    /\ ops' = {}
    /\ UNCHANGED <<exitStatus, listen_fd, signal_fd, tally, setupFailed, teardown,
                   kernVars, nconn, conn, handle, events>>

\* The engine completes a task of its own: no io, no user-data.
EngineInternal(t) ==
    /\ pc = "pump"
    /\ t \notin ConnIds
    /\ task[t].st = "none"
    /\ cur = NULL
    /\ \A u \in TaskIds : task[u].st # "complete"
    /\ task' = [task EXCEPT ![t].st = "complete", ![t].type = "HYPER_TASK_EMPTY"]
    /\ log' = "none"
    /\ errno' = "none"
    /\ ops' = {}
    /\ UNCHANGED <<pc, exitStatus, exitVia, listen_fd, signal_fd, tally, setupFailed,
                   teardown, kernVars, nconn, conn, handle, cur, events>>

\* hyper_executor_poll(exec): a completed task, or NULL once nothing is left to run.
PollResults ==
    LET done == {t \in TaskIds : task[t].st = "complete"}
        busy == {t \in TaskIds : task[t].st = "ready"}
    IN  IF done # {} THEN done
        ELSE IF busy = {} THEN {NULL}
        ELSE {}

\* ------------------------------------------------- record life cycle

\* The interest mask of an accepted descriptor, line 182.
ArmedEvents == {"EPOLLIN"}

\* create_conn_data(epoll, fd), lines 177-195: the record, or NULL when
\* EPOLL_CTL_ADD fails.
create_conn_data(c, fd, addFails) ==
    IF addFails
    THEN [ptr |-> NULL,
          rec |-> [st |-> "null", fd |-> -1, read_waker |-> NULL, write_waker |-> NULL,
                   dlog |-> <<>>]]
    ELSE [ptr |-> c,
          rec |-> [st |-> "live", fd |-> fd, read_waker |-> NULL, write_waker |-> NULL,
                   dlog |-> <<>>]]

\* A free_conn_data that closes the descriptor before it deregisters it.
free_conn_data_steps_close_first(rec) ==
    <<"close", "epoll_ctl_del">>
    \o (IF rec.read_waker # NULL THEN <<"waker_free_read">> ELSE <<>>)
    \o (IF rec.write_waker # NULL THEN <<"waker_free_write">> ELSE <<>>)
    \o <<"free">>

\* The calls free_conn_data makes on record rec, in order, lines 207-228.
free_conn_data_steps(rec) ==
    <<"epoll_ctl_del">>
    \o (IF rec.read_waker # NULL THEN <<"waker_free_read">> ELSE <<>>)
    \o (IF rec.write_waker # NULL THEN <<"waker_free_write">> ELSE <<>>)
    \o <<"close", "free">>

\* The record after free_conn_data.
free_conn_data_rec(rec) ==
    [rec EXCEPT !.st = "freed", !.read_waker = NULL, !.write_waker = NULL,
                !.dlog = free_conn_data_steps(rec)]

\* A free_conn_data that releases the read handle and forgets the write handle.
free_conn_data_handles_read_only(H, c, rec) ==
    WakerFree(H, c, "r", rec.read_waker)

\* The handle table after free_conn_data.
free_conn_data_handles(H, c, rec) ==
    WakerFree(WakerFree(H, c, "r", rec.read_waker), c, "w", rec.write_waker)

\* The handle operations of free_conn_data, lines 214-221.
free_conn_data_ops(c, rec) ==
    (IF rec.read_waker # NULL THEN {Op(c, "r", rec.read_waker, "free")} ELSE {})
    \cup (IF rec.write_waker # NULL THEN {Op(c, "w", rec.write_waker, "free")} ELSE {})

\* A free_conn_data that closes the descriptor without EPOLL_CTL_DEL.
free_conn_data_sock_no_del(s) ==
    [s EXCEPT !.reg = FALSE, !.open = FALSE]

\* The kernel's view of the descriptor after free_conn_data: one more
\* EPOLL_CTL_DEL call; the close drops the registration even when the call failed.
free_conn_data_sock(s) ==
    [s EXCEPT !.dels = @ + 1, !.reg = FALSE, !.open = FALSE]

\* ------------------------------------------------------- executor pump

\* A pump that leaves the inner loop after the first task it handled.
AfterTaskPc_break == "wait"

\* Where the inner loop goes after it handled a task (continue), lines 320, 333.
AfterTaskPc == "pump"

\* The test that ends the inner loop, line 298.
PollEnds(t) == t = NULL

\* Whether the pump destroys the record its user-data names, lines 315, 325.
HasRecord(c) == c # NULL

\* A pump that frees the task of a finished connection before it asks for its
\* user-data, and forgets the task that carries none.
pump_task_steps_early_free(t) ==
    IF task[t].type = "HYPER_TASK_ERROR"
    THEN <<"task_type", "task_value", "error_free", "task_userdata">>
         \o (IF HasRecord(task[t].ud) THEN <<"free_conn_data">> ELSE <<>>)
         \o <<"task_free">>
    ELSE IF HasRecord(task[t].ud)
    THEN <<"task_type", "task_type", "task_free", "task_userdata", "free_conn_data">>
    ELSE <<"task_type", "task_type", "task_userdata">>

\* A pump whose error branch frees the error and the task but not the record.
pump_task_steps_error_keeps_record(t) ==
    IF task[t].type = "HYPER_TASK_ERROR"
    THEN <<"task_type", "task_value", "error_free", "task_userdata", "task_free">>
    ELSE IF task[t].type = "HYPER_TASK_EMPTY"
    THEN <<"task_type", "task_type", "task_userdata">>
         \o (IF HasRecord(task[t].ud) THEN <<"free_conn_data">> ELSE <<>>)
         \o <<"task_free">>
    ELSE <<"task_type", "task_type">>

\* The calls the pump makes on a completed task t, in order, lines 301-334.
pump_task_steps(t) ==
    IF task[t].type = "HYPER_TASK_ERROR"
    THEN <<"task_type", "task_value", "error_free", "task_userdata">>
         \o (IF HasRecord(task[t].ud) THEN <<"free_conn_data">> ELSE <<>>)
         \o <<"task_free">>
    ELSE IF task[t].type = "HYPER_TASK_EMPTY"
    THEN <<"task_type", "task_type", "task_userdata">>
         \o (IF HasRecord(task[t].ud) THEN <<"free_conn_data">> ELSE <<>>)
         \o <<"task_free">>
    ELSE <<"task_type", "task_type">>

\* The perror of one pump iteration, line 210.
pump_task_log(t, delFails) ==
    IF HasRecord(task[t].ud) /\ delFails THEN "epoll_ctl (transport)"
    ELSE "none"

\* One iteration of the inner loop that got a task, lines 297-334.
PumpTask ==
    /\ pc = "pump"
    /\ \E t \in PollResults, delFails \in BOOLEAN :
         /\ ~PollEnds(t)
         /\ LET c == task[t].ud
                steps == pump_task_steps(t)
                freed == \E i \in 1..Len(steps) : steps[i] = "task_free"
                kill == \E i \in 1..Len(steps) : steps[i] = "free_conn_data"
            IN  /\ delFails => kill /\ faults < MaxFaults
                /\ faults' = IF delFails THEN faults + 1 ELSE faults
                /\ task' = [task EXCEPT ![t].st = IF freed THEN "freed" ELSE "leaked",
                                        ![t].tlog = steps]
                /\ conn' = IF kill THEN [conn EXCEPT ![c] = free_conn_data_rec(conn[c])]
                                   ELSE conn
                /\ handle' = IF kill
                              THEN Settled(RunEnds(RunEnds(
                                       free_conn_data_handles(handle, c, conn[c]),
                                       c, "r"), c, "w"), conn')
                              ELSE handle
                /\ sock' = IF kill THEN [sock EXCEPT ![c] = free_conn_data_sock(sock[c])]
                                   ELSE sock
                /\ log' = pump_task_log(t, delFails)
                /\ errno' = IF delFails THEN "ENOMEM" ELSE "none"
                /\ ops' = IF kill THEN free_conn_data_ops(c, conn[c]) ELSE {}
    /\ pc' = AfterTaskPc
    /\ UNCHANGED <<exitStatus, exitVia, listen_fd, signal_fd, tally, setupFailed, teardown,
                   backlog, sigq, nconn, cur, events>>

\* The iteration that got NULL: the inner loop ends and main goes to epoll_wait.
PumpBreak ==
    /\ pc = "pump"
    /\ \E t \in PollResults : PollEnds(t)
    /\ pc' = "wait"
    /\ log' = "none"
    /\ errno' = "none"
    /\ ops' = {}
    /\ UNCHANGED <<exitStatus, exitVia, listen_fd, signal_fd, tally, setupFailed, teardown,
                   kernVars, hostVars>>

\* --------------------------------------------------------- epoll_wait

\* The flags epoll reports for an accepted socket in state s: the armed ones
\* that hold, and EPOLLHUP, which needs no arming.
ConnFlags(s) ==
    (((IF s.rd # "idle" THEN {"EPOLLIN"} ELSE {})
       \cup (IF s.wr THEN {"EPOLLOUT"} ELSE {})) \cap ArmedEvents)
    \cup (IF s.rd = "hup" THEN {"EPOLLHUP"} ELSE {})

ListenEvent == [kind |-> "listen", id |-> 0, flags |-> {"EPOLLIN"}]
SignalEvent == [kind |-> "signal", id |-> 0, flags |-> {"EPOLLIN"}]
ConnEvent(c) == [kind |-> "conn", id |-> c, flags |-> ConnFlags(sock[c])]

\* The registered sources with something to report.
ReadySources ==
    (IF backlog > 0 THEN {ListenEvent} ELSE {})
    \cup (IF sigq # "none" THEN {SignalEvent} ELSE {})
    \cup {ConnEvent(c) : c \in {x \in ConnIds : sock[x].reg /\ ConnFlags(sock[x]) # {}}}

\* epoll_wait reports at most MAX_EVENTS of them, line 341.
Batches(ready) ==
    IF Cardinality(ready) <= MAX_EVENTS THEN {ready}
    ELSE {b \in SUBSET ready : Cardinality(b) = MAX_EVENTS}

\* epoll_wait(epoll, events, MAX_EVENTS, -1) returns a batch, lines 341-347.
EpollWait ==
    /\ pc = "wait"
    /\ ReadySources # {}
    /\ \E b \in Batches(ReadySources) : events' = b
    /\ pc' = "fanout"
    /\ log' = "none"
    /\ errno' = "none"
    /\ ops' = {}
    /\ UNCHANGED <<exitStatus, exitVia, listen_fd, signal_fd, tally, setupFailed, teardown,
                   kernVars, nconn, conn, task, handle, cur>>

\* epoll_wait fails (EINTR): main returns 1, lines 342-345.
EpollWaitFails ==
    /\ pc = "wait"
    /\ faults < MaxFaults
    /\ faults' = faults + 1
    /\ pc' = "exited"
    /\ exitStatus' = 1
    /\ exitVia' = "epoll_wait"
    /\ log' = "epoll"
    /\ errno' = "EINTR"
    /\ ops' = {}
    /\ UNCHANGED <<listen_fd, signal_fd, tally, setupFailed, teardown, backlog, sigq, sock,
                   hostVars>>

\* ------------------------------------------------------------ acceptor

\* accept(listen_fd): what it can return.  A descriptor that is no listening
\* socket fails with ENOTSOCK; an empty queue gives EAGAIN; a queued connection
\* is handed over, or was aborted by the peer and is dropped (ECONNABORTED).
AcceptOutcomes ==
    IF listen_fd # LISTEN_SOCK
    THEN {[fd |-> -1, errno |-> "ENOTSOCK", taken |-> 0, fault |-> 0]}
    ELSE IF backlog = 0
    THEN {[fd |-> -1, errno |-> "EAGAIN", taken |-> 0, fault |-> 0]}
    ELSE {[fd |-> LowestFreeFd, errno |-> "none", taken |-> 1, fault |-> 0],
          [fd |-> -1, errno |-> "ECONNABORTED", taken |-> 1, fault |-> 1]}

\* The condition of the drain loop, line 356.
AcceptContinues(new_fd) == new_fd >= 0

\* A drain that reports every failure that ends it, would-block too.
AcceptLogs_always(e) == TRUE

\* Whether the failure that ended the drain is reported, line 389.
AcceptLogs(e) == e # "EAGAIN"

\* Where main goes once the events left are e: the for loop, lines 349, 423-424.
AfterEventPc(left) == IF left = {} THEN "pump" ELSE "fanout"

\* One iteration of the drain loop on a listener event, lines 350-391.  cfg names
\* the fcntl call that fails, if any; addFails whether EPOLL_CTL_ADD fails.
AcceptIter ==
    /\ pc = "fanout"
    /\ ListenEvent \in events
    /\ \E a \in AcceptOutcomes, cfg \in {"ok", "fcntl_nonblock", "fcntl_cloexec"},
         addFails \in BOOLEAN :
         LET c == nconn + 1
             made == create_conn_data(c, a.fd, addFails)
             nf == a.fault + (IF cfg # "ok" THEN 1 ELSE 0) + (IF addFails THEN 1 ELSE 0)
         IN  /\ faults + nf <= MaxFaults
             /\ faults' = faults + nf
             /\ backlog' = backlog - a.taken
             /\ IF AcceptContinues(a.fd)
                THEN /\ nconn' = c
                     /\ events' = events
                     /\ UNCHANGED handle
                     /\ IF cfg # "ok"
                        THEN /\ ~addFails
                             /\ pc' = "exited" /\ exitStatus' = 1 /\ exitVia' = "fcntl"
                             /\ log' = "fcntl (transport)"
                             /\ errno' = "EBADF"
                             /\ ops' = {}
                             /\ sock' = [sock EXCEPT ![c] = [NoSock EXCEPT !.fd = a.fd,
                                           !.open = TRUE, !.wr = TRUE]]
                             /\ UNCHANGED <<conn, task>>
                        ELSE /\ pc' = "fanout" /\ UNCHANGED <<exitStatus, exitVia>>
                             /\ log' = IF addFails THEN "epoll_ctl (transport)"
                                       ELSE "none"
                             /\ errno' = IF addFails THEN "ENOMEM" ELSE "none"
                             /\ ops' = {}
                             /\ sock' = [sock EXCEPT ![c] = [NoSock EXCEPT !.fd = a.fd,
                                           !.open = TRUE, !.wr = TRUE,
                                           !.reg = ~addFails, !.adds = 1]]
                             /\ conn' = [conn EXCEPT ![c] = made.rec]
                             /\ task' = [task EXCEPT ![c] = [NoTask EXCEPT !.st = "ready",
                                           !.io = made.ptr, !.ud = made.ptr]]
                ELSE /\ cfg = "ok" /\ ~addFails
                     /\ events' = events \ {ListenEvent}
                     /\ pc' = AfterEventPc(events')
                     /\ log' = IF AcceptLogs(a.errno) THEN "accept" ELSE "none"
                     /\ errno' = a.errno
                     /\ ops' = {}
                     /\ UNCHANGED <<exitStatus, exitVia, sock, nconn, conn, task,
                                    handle>>
    /\ UNCHANGED <<listen_fd, signal_fd, tally, setupFailed, teardown, sigq, cur>>

\* -------------------------------------------------------- signal intake

\* A signal switch without the SIGQUIT case.
IsShutdownSignal_no_quit(signo) == signo \in {"SIGINT", "SIGTERM"}

\* The signals that end the loop, lines 399-407.
IsShutdownSignal(signo) == signo \in {"SIGINT", "SIGTERM", "SIGQUIT"}

\* The release calls after the EXIT label, lines 426-428.
TeardownCalls == <<"hyper_serverconn_options_free", "hyper_executor_free">>

\* The value main returns after the EXIT label, line 430.
ExitReturn == 1

\* What a read of the signal descriptor can yield: a record of a masked signal
\* from the signalfd; anything, or too few bytes, from a descriptor that is none.
SignalRecords ==
    IF signal_fd = SIGNAL_SOCK THEN {"SIGINT", "SIGTERM", "SIGQUIT"}
    ELSE Signals \cup {"short"}

\* What main prints for the record it read, lines 395, 400, 403, 406, 409.
SignalLog(signo) ==
    CASE signo = "short"   -> "read (signal_fd)"
      [] signo = "SIGINT"  -> "Caught SIGINT... exiting"
      [] signo = "SIGTERM" -> "Caught SIGTERM... exiting"
      [] signo = "SIGQUIT" -> "Caught SIGQUIT... exiting"
      [] OTHER             -> "Caught unexpected signal... ignoring"

\* A signal event, lines 392-410: read one record; a short read returns 1, a
\* shutdown signal goes to EXIT, anything else is reported and ignored.
SignalIntake ==
    /\ pc = "fanout"
    /\ SignalEvent \in events
    /\ sigq' = "none"
    /\ \E signo \in SignalRecords :
         /\ log' = SignalLog(signo)
         /\ errno' = IF signo = "short" THEN "EINVAL" ELSE "none"
         /\ ops' = {}
         /\ IF signo = "short"
            THEN /\ faults < MaxFaults
                 /\ faults' = faults + 1
                 /\ pc' = "exited" /\ exitStatus' = 1 /\ exitVia' = "sigread"
                 /\ UNCHANGED <<teardown, events>>
            ELSE IF IsShutdownSignal(signo)
            THEN /\ pc' = "exited" /\ exitStatus' = ExitReturn /\ exitVia' = "signal"
                 /\ teardown' = TeardownCalls
                 /\ UNCHANGED <<events, faults>>
            ELSE /\ events' = events \ {SignalEvent}
                 /\ pc' = AfterEventPc(events')
                 /\ UNCHANGED <<exitStatus, exitVia, teardown, faults>>
    /\ UNCHANGED <<listen_fd, signal_fd, tally, setupFailed, backlog, sock, nconn, conn,
                   task, handle, cur>>

\* ------------------------------------------------- readiness to wakers

\* A fan-out that wakes whatever is stored, whichever flags the event carries.
fanout_conn_any_flag(rec, flags) ==
    [rec |-> [rec EXCEPT !.read_waker = NULL, !.write_waker = NULL],
     wokeRead |-> rec.read_waker, wokeWrite |-> rec.write_waker]

\* The fan-out on a connection event, lines 411-422: the record afterwards and
\* the handles woken (NULL for none).
fanout_conn(rec, flags) ==
    LET wr == IF "EPOLLIN" \in flags /\ rec.read_waker # NULL THEN rec.read_waker ELSE NULL
        ww == IF "EPOLLOUT" \in flags /\ rec.write_waker # NULL THEN rec.write_waker ELSE NULL
    IN  [rec |-> [rec EXCEPT !.read_waker = IF wr # NULL THEN NULL ELSE @,
                             !.write_waker = IF ww # NULL THEN NULL ELSE @],
         wokeRead |-> wr, wokeWrite |-> ww]

ConnFanout ==
    /\ pc = "fanout"
    /\ \E e \in events :
         /\ e.kind = "conn"
         /\ LET f == fanout_conn(conn[e.id], e.flags)
                H1 == WakerWake(handle, e.id, "r", f.wokeRead)
                T1 == EngineWake(task, e.id, f.wokeRead)
            IN  /\ conn' = [conn EXCEPT ![e.id] = f.rec]
                /\ handle' = Settled(WakerWake(H1, e.id, "w", f.wokeWrite), conn')
                /\ task' = EngineWake(T1, e.id, f.wokeWrite)
                /\ ops' = (IF f.wokeRead # NULL THEN {Op(e.id, "r", f.wokeRead, "wake")}
                            ELSE {})
                           \cup (IF f.wokeWrite # NULL
                                 THEN {Op(e.id, "w", f.wokeWrite, "wake")} ELSE {})
         /\ events' = events \ {e}
         /\ pc' = AfterEventPc(events')
    /\ log' = "none"
    /\ errno' = "none"
    /\ UNCHANGED <<exitStatus, exitVia, listen_fd, signal_fd, tally, setupFailed, teardown,
                   kernVars, nconn, cur>>

\* --------------------------------------------------------- environment

\* The program sees the kernel's state only through its system calls, so a
\* change is taken at the last point before a call that can observe it:
\* everything before epoll_wait, the listen queue also before an accept, a
\* socket also before a callback of its task.
Blocked == pc = "wait"
Draining == pc = "fanout" /\ ListenEvent \in events
Serving(c) == Pollable(c)

\* A peer connects.  While the listener is a descriptor that is no listening
\* socket, the descriptor standing in for it becomes readable instead.
EnvConnect ==
    /\ Blocked \/ Draining
    /\ IF listen_fd = LISTEN_SOCK THEN nconn + backlog < MaxConns ELSE backlog = 0
    /\ backlog' = backlog + 1
    /\ UNCHANGED <<progVars, sigq, sock, faults, hostVars>>

\* A signal is delivered to the signal descriptor (or, while that is a descriptor
\* that is no signalfd, the descriptor standing in for it becomes readable).
EnvSignal ==
    /\ Blocked
    /\ sigq = "none"
    /\ sigq' = "pending"
    /\ UNCHANGED <<progVars, backlog, sock, faults, hostVars>>

\* The peer of a served connection sends data, hangs up, or drains what was sent.
EnvData(c) ==
    /\ Blocked \/ Serving(c)
    /\ conn[c].st = "live" /\ sock[c].rd = "idle"
    /\ sock' = [sock EXCEPT ![c].rd = "data"]
    /\ UNCHANGED <<progVars, backlog, sigq, faults, hostVars>>

EnvHup(c) ==
    /\ Blocked \/ Serving(c)
    /\ conn[c].st = "live" /\ sock[c].rd # "hup"
    /\ sock' = [sock EXCEPT ![c].rd = "hup", ![c].wr = TRUE]
    /\ UNCHANGED <<progVars, backlog, sigq, faults, hostVars>>

EnvWritable(c) ==
    /\ Blocked \/ Serving(c)
    /\ conn[c].st = "live" /\ ~sock[c].wr
    /\ sock' = [sock EXCEPT ![c].wr = TRUE]
    /\ UNCHANGED <<progVars, backlog, sigq, faults, hostVars>>

\* ------------------------------------------------------ specification

Engine ==
    \/ \E t \in ConnIds : ReadCb(t)
    \/ \E t \in ConnIds : WriteCb(t)
    \/ \E t \in ConnIds : CallbackNull(t)
    \/ \E t \in TaskIds : EngineInternal(t)

Program ==
    \/ Setup
    \/ PumpTask
    \/ PumpBreak
    \/ EpollWait
    \/ EpollWaitFails
    \/ AcceptIter
    \/ SignalIntake
    \/ ConnFanout

Env ==
    \/ EnvConnect
    \/ EnvSignal
    \/ \E c \in ConnIds : EnvData(c)
    \/ \E c \in ConnIds : EnvHup(c)
    \/ \E c \in ConnIds : EnvWritable(c)

Next == Program \/ Engine \/ Env

Spec == Init /\ [][Next]_vars

\* The steps main takes on its own when no call fails it, and the engine's.
\* main runs on until it blocks in epoll_wait, and the engine polls a task it
\* was asked to poll; the peers and the kernel's failures owe nothing.
Progress ==
    \/ Setup
    \/ PumpTask
    \/ PumpBreak
    \/ EpollWait
    \/ AcceptIter
    \/ SignalIntake
    \/ ConnFanout

FairSpec == Spec /\ WF_vars(Progress) /\ WF_vars(Engine)

\* The same program serving TallyConns connections, with the runs of pending
\* returns tallied.
TallyInit == Start /\ tally = TRUE
TallyEnv ==
    \/ EnvConnect /\ nconn' + backlog' <= TallyConns
    \/ EnvSignal
    \/ \E c \in ConnIds : EnvData(c)
    \/ \E c \in ConnIds : EnvHup(c)
    \/ \E c \in ConnIds : EnvWritable(c)
TallyNext == Program \/ Engine \/ TallyEnv
TallySpec == TallyInit /\ [][TallyNext]_vars

\* ---------------------------------------------------------------------
\* The claims.
\* ---------------------------------------------------------------------

InLoop == pc \in {"pump", "wait", "fanout"}
Ended == pc \in {"exited", "crashed"}

\* The handles of callback k on record c that are outstanding.
OutstandingOf(c, k) == {h \in HandleIds : Outstanding(handle[c][k].h[h])}

\* How often call x occurs among the calls s.
Count(s, x) == Cardinality({i \in 1..Len(s) : s[i] = x})

\* No handle was woken or freed after its first wake or free.
NoHandleMisuse == \A c \in ConnIds : \A k \in {"r", "w"} : ~handle[c][k].misuse

\* The accepted connections.
Accepted == 1..nconn

\* C1: whenever main is about to block in epoll_wait, the executor holds no task
\* that is ready to run and none that completed and was not handed over: the
\* inner loop polled until hyper_executor_poll returned NULL.
C1_PolledToEmptiness ==
    pc = "wait" => /\ \A t \in TaskIds : task[t].st \notin {"ready", "complete"}
                   /\ cur = NULL

\* C1 witness: main blocks after an accept, a completion and a stall: one task
\* was handed over and freed, another is parked on a stored handle.
C1_Witness ==
    /\ pc = "wait"
    /\ \E t \in ConnIds : task[t].st = "freed" /\ conn[t].st = "freed"
    /\ \E t \in ConnIds : task[t].st = "parked" /\ conn[t].read_waker # NULL

\* The last step woke, or freed, the handle record c held for callback k.
Woken(c, k) == \E h \in HandleIds : Op(c, k, h, "wake") \in ops
Freed(c, k) == \E h \in HandleIds : Op(c, k, h, "free") \in ops

\* C2, for a stalled write: once the socket is writable, the stored write handle
\* is eventually woken -- or, short of that, released on a new call of write_cb
\* or with its record, or the process ends.
C2_StalledWriteResumed ==
    \A c \in ConnIds :
        (conn[c].write_waker # NULL /\ sock[c].wr)
            ~> (Woken(c, "w") \/ Freed(c, "w") \/ Ended)

\* C3 as stated: no handle is woken or freed twice, and when the process has
\* ended, by signal shutdown or otherwise, no handle is left without a wake or free.
C3_ExactlyOneWakeOrFree ==
    /\ NoHandleMisuse
    /\ pc = "exited" => \A c \in ConnIds : \A k \in {"r", "w"} : OutstandingOf(c, k) = {}

\* C3, amended: no handle is woken or freed twice or both; every handle that is
\* no longer stored in a live record got its one wake or free (it is gone); a
\* handle without either is the one its live record stores, and stays so when
\* the process ends with the record in flight.
C3_AtMostOneWakeOrFree ==
    /\ NoHandleMisuse
    /\ \A c \in ConnIds : \A k \in {"r", "w"} : \A h \in HandleIds :
         handle[c][k].h[h].live =>
            /\ Outstanding(handle[c][k].h[h])
            /\ conn[c].st = "live"
            /\ Stored(c, k) = h
    /\ \A c \in ConnIds : \A k \in {"r", "w"} :
         Stored(c, k) # NULL => Outstanding(handle[c][k].h[Stored(c, k)])

\* C3 witness: the process ended by a shutdown signal; one record was destroyed
\* with its handles freed, and another is in flight with a handle never woken
\* or freed.
C3_Witness ==
    /\ pc = "exited" /\ exitVia = "signal"
    /\ \E c \in ConnIds : conn[c].st = "freed" /\ "waker_free_read" \in
                              {conn[c].dlog[i] : i \in 1..Len(conn[c].dlog)}
    /\ \E c \in ConnIds : conn[c].st = "live" /\ OutstandingOf(c, "r") # {}

\* C4: every record has at most one outstanding read handle and at most one
\* outstanding write handle, in every reachable state.
C4_OneHandlePerSlot ==
    \A c \in ConnIds : \A k \in {"r", "w"} : Cardinality(OutstandingOf(c, k)) <= 1

\* C4 witness: two connections are stalled at once, one of them on both its read
\* and its write, and one read handle has already replaced an earlier one.
C4_Witness ==
    /\ conn[1].read_waker = 2 /\ conn[1].write_waker # NULL
    /\ conn[2].read_waker # NULL
    /\ OutstandingOf(1, "r") = {2}

\* C5 as stated: when the process has ended or the record is destroyed, the
\* descriptor of every accepted connection was registered once and
\* deregistered once.
C5_AddsEqualDels ==
    \A c \in Accepted :
        (Ended \/ conn[c].st = "freed") => sock[c].adds = 1 /\ sock[c].dels = 1

\* C5, amended: a destroyed record had one EPOLL_CTL_ADD and one EPOLL_CTL_DEL;
\* a record in flight, at process end too, had one EPOLL_CTL_ADD and no
\* EPOLL_CTL_DEL; a descriptor without a record had at most one EPOLL_CTL_ADD
\* (none when it could not be configured) and no EPOLL_CTL_DEL.
C5_AddDelPerRecord ==
    \A c \in Accepted :
        /\ conn[c].st = "freed" => sock[c].adds = 1 /\ sock[c].dels = 1
        /\ conn[c].st = "live" => sock[c].adds = 1 /\ sock[c].dels = 0 /\ sock[c].reg
        /\ conn[c].st \notin {"freed", "live"} =>
              sock[c].adds <= 1 /\ sock[c].dels = 0 /\ ~sock[c].reg

\* C5 witness: the process ended by a shutdown signal with one record destroyed
\* and one in flight.
C5_Witness ==
    /\ pc = "exited" /\ exitVia = "signal"
    /\ \E c \in Accepted : conn[c].st = "freed" /\ sock[c].dels = 1
    /\ \E c \in Accepted : conn[c].st = "live" /\ sock[c].dels = 0

\* C6: every task hyper_executor_poll handed over is freed by exactly one
\* hyper_task_free, which comes after its user-data was read.
C6_TaskFreedOnceAfterUserdata ==
    \A t \in TaskIds :
        task[t].st \in {"freed", "leaked"} =>
            /\ Count(task[t].tlog, "task_free") = 1
            /\ \E i, j \in 1..Len(task[t].tlog) :
                 /\ i < j
                 /\ task[t].tlog[i] = "task_userdata"
                 /\ task[t].tlog[j] = "task_free"
            /\ task[t].tlog[Len(task[t].tlog)] = "task_free"

\* C6 witness: a connection task that ended in error, a connection task that
\* ended normally or one without a record, and an engine task have been handed
\* over and freed.
C6_Witness ==
    /\ \E t \in ConnIds : task[t].st = "freed" /\ task[t].type = "HYPER_TASK_ERROR"
    /\ \E t \in ConnIds : task[t].st = "freed" /\ task[t].type = "HYPER_TASK_EMPTY"
    /\ \E t \in TaskIds \ ConnIds : task[t].st = "freed"

\* The step that reads one record from the signal descriptor.
SignalRead == pc = "fanout" /\ SignalEvent \in events /\ sigq' = "none"

\* The record the step read, as main reports it.
ReadShutdown ==
    log' \in {"Caught SIGINT... exiting", "Caught SIGTERM... exiting",
              "Caught SIGQUIT... exiting"}
ReadOther == log' = "Caught unexpected signal... ignoring"

\* C7: the step that reads SIGINT, SIGTERM or SIGQUIT releases the options, then
\* the executor, and ends the process with status 1, polling no task, accepting
\* nothing, waking no handle and destroying no record; the step that reads any
\* other signal only consumes the event, and the loop goes on; once the process
\* has ended nothing happens any more.
C7_SignalHandling ==
    [][/\ (SignalRead /\ ReadShutdown) =>
            /\ pc' = "exited" /\ exitStatus' = 1
            /\ teardown = <<>>
            /\ teardown' = <<"hyper_serverconn_options_free", "hyper_executor_free">>
            /\ ops' = {}
            /\ UNCHANGED <<nconn, conn, task, handle, cur, events, backlog, sock>>
       /\ (SignalRead /\ ReadOther) =>
            /\ pc' \in {"fanout", "pump"}
            /\ events' = events \ {SignalEvent}
            /\ ops' = {}
            /\ UNCHANGED <<exitStatus, exitVia, teardown, listen_fd, signal_fd,
                           nconn, conn, task, handle, cur, backlog, sock>>
       /\ ~Ended]_vars

\* C7 witness: SIGTERM ended the process while a record was in flight, stalled
\* on a read, with a task ready to be polled and a connection event of the same
\* batch not yet handled.
C7_Witness ==
    /\ pc = "exited" /\ exitVia = "signal" /\ log = "Caught SIGTERM... exiting"
    /\ teardown = TeardownCalls
    /\ \E c \in ConnIds : conn[c].st = "live" /\ conn[c].read_waker # NULL
    /\ \E t \in TaskIds : task[t].st = "ready"
    /\ \E e \in events : e.kind = "conn"

\* C8: the main loop is entered only when no setup call failed, with the
\* listening socket and the signalfd that setup produced.
C8_SetupFailureAborts ==
    InLoop => /\ ~setupFailed
              /\ listen_fd = LISTEN_SOCK
              /\ signal_fd = SIGNAL_SOCK

\* C9: no failure tied to one connection ends the process: main never returns
\* because an accepted descriptor could not be configured, and never dies in a
\* callback of a connection whose registration failed.
C9_ConnectionErrorsLocal ==
    Ended => exitVia \notin {"fcntl", "sigsegv"}

\* The step in which the drain loop of a listener event ends and main goes on.
DrainEnds == pc = "fanout" /\ ListenEvent \in events /\ ListenEvent \notin events'

\* The step in which accept is called on a listener event.
AcceptStep == pc = "fanout" /\ ListenEvent \in events /\ (backlog' < backlog \/ DrainEnds)

\* C10 as stated: the drain ends only when accept returned EAGAIN.
C10_DrainEndsOnlyOnEAGAIN ==
    [][DrainEnds => errno' = "EAGAIN"]_vars

\* C10, amended: the drain ends at the first accept that fails, whatever its
\* errno; EAGAIN ends it silently, any other errno is reported; connections
\* still pending stay in the queue; main goes on with the events left or the
\* executor, and no accept failure ends the process.
C10_DrainEndsOnFirstFailure ==
    [][/\ DrainEnds =>
            /\ errno' \in {"EAGAIN", "ECONNABORTED", "ENOTSOCK"}
            /\ (log' = "accept") = (errno' # "EAGAIN")
            /\ log' \in {"accept", "none"}
            /\ pc' = (IF events' = {} THEN "pump" ELSE "fanout")
            /\ UNCHANGED <<exitStatus, exitVia, nconn, conn, task, sock>>
       /\ (AcceptStep /\ errno' \in {"EAGAIN", "ECONNABORTED", "ENOTSOCK"}) => DrainEnds
       /\ (AcceptStep /\ ~DrainEnds /\ pc' # "exited") =>
            nconn' = nconn + 1 /\ task'[nconn'].st = "ready"]_vars

\* C10 witness: the drain has just ended on ECONNABORTED, reported, with a
\* connection still pending in the queue, and main goes on.
C10_Witness ==
    /\ errno = "ECONNABORTED" /\ log = "accept"
    /\ pc \in {"pump", "fanout"}
    /\ ListenEvent \notin events
    /\ backlog > 0

\* The task of record c is stalled on its write alone, and the peer hung up.
StalledOnWriteAtHangup(c) ==
    /\ conn[c].st = "live"
    /\ task[c].st = "parked"
    /\ conn[c].read_waker = NULL /\ conn[c].write_waker # NULL
    /\ sock[c].rd = "hup"

\* C11, for a task stalled on its write: after the peer hung up, the record is
\* eventually destroyed, unless the process ends first.
C11_HangupReaped ==
    \A c \in ConnIds : StalledOnWriteAtHangup(c) ~> (conn[c].st = "freed" \/ Ended)

\* What callback k ("r" for read_cb, "w" for write_cb) returns on record c for
\* the outcome sys of its system call, h being the handle ctx would give.
CallbackResult(c, k, sys, h) ==
    IF k = "r" THEN read_cb(conn[c], sys, h) ELSE write_cb(conn[c], sys, h)

\* The record c with handle h in the slot of callback k and nothing else changed.
WithStored(c, k, h) ==
    IF k = "r" THEN [conn[c] EXCEPT !.read_waker = h]
    ELSE [conn[c] EXCEPT !.write_waker = h]

\* C12: on every live record and for every outcome of the system call, read_cb
\* and write_cb return the byte count and leave the record alone when the call
\* returned >= 0 (0 included); on EAGAIN they take a fresh handle, store it in
\* their own slot only and return pending; on any other failure they return
\* the I/O error and leave the record alone.
C12_CallbackOutcomes ==
    \A c \in ConnIds : conn[c].st = "live" =>
        \A k \in {"r", "w"} :
            \A sys \in (IF k = "r" THEN ReadOutcomes(sock[c]) ELSE WriteOutcomes(sock[c])) :
                LET h == NewHandle(handle[c][k])
                    r == CallbackResult(c, k, sys, h)
                IN  /\ h # NULL /\ ~handle[c][k].h[h].live /\ h # Stored(c, k)
                    /\ sys.ret >= 0 =>
                          /\ r.ret = "bytes" /\ r.n = sys.ret
                          /\ r.rec = conn[c] /\ ~r.took /\ r.freed = NULL
                    /\ (sys.ret < 0 /\ sys.errno = "EAGAIN") =>
                          /\ r.ret = "HYPER_IO_PENDING"
                          /\ r.took
                          /\ r.rec = WithStored(c, k, h)
                          /\ r.freed = Stored(c, k)
                    /\ (sys.ret < 0 /\ sys.errno # "EAGAIN") =>
                          /\ r.ret = "HYPER_IO_ERROR"
                          /\ r.rec = conn[c] /\ ~r.took /\ r.freed = NULL

\* C12 witness: write_cb has just returned pending on a record whose read slot
\* holds a handle, which it still holds; on another record a read failed with
\* ECONNRESET.
C12_Witness ==
    /\ \E h \in HandleIds : Op(1, "w", h, "new") \in ops /\ conn[1].write_waker = h
    /\ errno = "EAGAIN"
    /\ conn[1].read_waker # NULL
    /\ \E c \in ConnIds : task[c].type = "HYPER_TASK_ERROR"

\* The step handles the event of the batch for connection c, which carries flag f.
ConnEventHandled(c, f) ==
    /\ pc = "fanout"
    /\ \E e \in events : e.kind = "conn" /\ e.id = c /\ f \in e.flags /\ e \notin events'

\* C13: a callback that returns pending on a slot that holds a handle frees
\* that handle, does not wake it, and installs the new one; every wake is of
\* the handle the slot holds at that moment, never of one that was replaced;
\* and a readable (writable) event wakes the handle the read (write) slot holds.
C13_ReplacedFreedNewWoken ==
    [][\A c \in ConnIds : \A k \in {"r", "w"} : \A h \in HandleIds :
         /\ (ops' # ops /\ Op(c, k, h, "new") \in ops' /\ Stored(c, k) # NULL) =>
               /\ h # Stored(c, k)
               /\ Op(c, k, Stored(c, k), "free") \in ops'
               /\ Op(c, k, Stored(c, k), "wake") \notin ops'
               /\ IF k = "r" THEN conn'[c].read_waker = h ELSE conn'[c].write_waker = h
               /\ ~handle'[c][k].h[Stored(c, k)].live
               /\ Outstanding(handle'[c][k].h[h])
         /\ (ops' # ops /\ Op(c, k, h, "wake") \in ops') =>
               /\ h = Stored(c, k)
               /\ Outstanding(handle[c][k].h[h])
         /\ (ConnEventHandled(c, IF k = "r" THEN "EPOLLIN" ELSE "EPOLLOUT")
               /\ Stored(c, k) = h) =>
               Op(c, k, h, "wake") \in ops'
      ]_vars

\* C13 witness: the fan-out has just woken the read handle that replaced an
\* earlier one (a second handle exists only while the first is still stored),
\* and the write handle of another record was replaced too.
C13_Witness ==
    /\ \E c \in ConnIds : Op(c, "r", 2, "wake") \in ops /\ conn[c].read_waker = NULL
    /\ \E c \in ConnIds : conn[c].write_waker = 2

\* The tally of the run of pending returns of callback k on record c.
Run(c, k) == handle[c][k].run

\* The step in which a call of callback k on record c completes and ends a run.
RunCompletes(c, k) ==
    Run(c, k).np > 0 /\ handle'[c][k].run.np = 0 /\ conn'[c].st = "live"

\* C14 as stated: when a run of pending returns ends with a completed call, the
\* handles freed during it number one less than its pending returns.
C14_FreedIsPendingLessOne ==
    [][\A c \in ConnIds : \A k \in {"r", "w"} :
         RunCompletes(c, k) => Run(c, k).nf = Run(c, k).np - 1]_vars

\* C14, amended: every pending return frees the handle its slot holds, if any,
\* and installs the new one; so during a run the handles freed and woken number
\* one less than its pending returns, plus one if the slot still held a handle
\* of an earlier run when the run began, plus one if the last handle has been
\* woken; with no handle woken, freed is pending less one, or pending when an
\* earlier handle was still stored.
C14_FreedAndWokenTally ==
    \A c \in ConnIds : \A k \in {"r", "w"} :
        Run(c, k).np > 0 =>
            /\ Run(c, k).nf + Run(c, k).nw
                 = Run(c, k).np - 1 + (IF Run(c, k).stale THEN 1 ELSE 0)
                                    + (IF Stored(c, k) = NULL THEN 1 ELSE 0)
            /\ Run(c, k).nw <= 1
            /\ Run(c, k).nw = 1 => Stored(c, k) = NULL

\* C14 witness: a run of two pending returns of read_cb that began with a
\* handle of an earlier run still stored: two handles were freed.
C14_Witness ==
    \E c \in ConnIds : /\ Run(c, "r").np = 2 /\ Run(c, "r").nf = 2 /\ Run(c, "r").stale
                       /\ conn[c].read_waker # NULL

\* The step destroys record c.
Destroys(c) == conn[c].st = "live" /\ conn'[c].st = "freed"

\* C15: the step that destroys a record calls, in this order, EPOLL_CTL_DEL,
\* hyper_waker_free on the read handle if one is stored, hyper_waker_free on
\* the write handle if one is stored, close and free, and nothing else; it does
\* so too when EPOLL_CTL_DEL fails, which is only reported.
C15_DestructionOrder ==
    [][\A c \in ConnIds : Destroys(c) =>
         LET d == conn'[c].dlog
             r == conn[c].read_waker # NULL
             w == conn[c].write_waker # NULL
             n == 3 + (IF r THEN 1 ELSE 0) + (IF w THEN 1 ELSE 0)
         IN  /\ Len(d) = n
             /\ d[1] = "epoll_ctl_del"
             /\ r => d[2] = "waker_free_read"
             /\ w => d[n - 2] = "waker_free_write"
             /\ d[n - 1] = "close"
             /\ d[n] = "free"
             /\ ops' = (IF r THEN {Op(c, "r", conn[c].read_waker, "free")} ELSE {})
                       \cup (IF w THEN {Op(c, "w", conn[c].write_waker, "free")} ELSE {})
             /\ sock'[c].dels = sock[c].dels + 1
             /\ ~sock'[c].open /\ ~sock'[c].reg
             /\ \A k \in {"r", "w"} : \A h \in HandleIds : ~handle'[c][k].h[h].live
             /\ log' \in {"none", "epoll_ctl (transport)"}
             /\ pc' = "pump"
      ]_vars

\* C15 witness: a record that stored both handles has just been destroyed
\* although its EPOLL_CTL_DEL failed.
C15_Witness ==
    /\ log = "epoll_ctl (transport)"
    /\ \E c \in ConnIds :
         /\ conn[c].st = "freed" /\ Len(conn[c].dlog) = 5 /\ ~sock[c].open
         /\ \E g, h \in HandleIds : ops = {Op(c, "r", g, "free"), Op(c, "w", h, "free")}

\* The step handles event e of the batch.
Handles(e) == pc = "fanout" /\ e \in events /\ e \notin events'

Unpolled(t) == task[t].st = "ready" /\ cur # t

\* C17: a task that was pushed or woken and not polled since is never left
\* waiting across an epoll_wait, and main stops before polling it only when a
\* shutdown signal of the same batch took it to EXIT.
C17_PumpedBeforeWait ==
    \A t \in TaskIds : Unpolled(t) =>
       /\ pc # "wait"
       /\ Ended => exitVia = "signal"

\* The step is the pump iteration that takes completed task t.
Pumps(t) == pc = "pump" /\ task[t].st = "complete" /\ task'[t].st # "complete"

\* C18: the pump iteration that takes a completed task of type ERROR or EMPTY
\* frees the task once, frees the engine error once exactly when the type is
\* ERROR, and, when the user-data names a record, destroys that record, which
\* was live until then, once and in that same iteration; when the user-data is
\* NULL it destroys nothing and changes no record, socket or handle.  No other
\* record is touched in either case.
C18_CompletedTaskDisposal ==
    [][\A t \in TaskIds : Pumps(t) =>
         LET c == task[t].ud
             l == task'[t].tlog
         IN  /\ task[t].type \in {"HYPER_TASK_ERROR", "HYPER_TASK_EMPTY"}
             /\ task'[t].st = "freed"
             /\ Count(l, "task_free") = 1
             /\ Count(l, "error_free") = (IF task[t].type = "HYPER_TASK_ERROR" THEN 1 ELSE 0)
             /\ \A u \in TaskIds \ {t} : task'[u] = task[u]
             /\ IF c # NULL
                THEN /\ conn[c].st = "live" /\ conn'[c].st = "freed"
                     /\ Count(l, "free_conn_data") = 1
                     /\ ~sock'[c].open
                     /\ \A d \in ConnIds \ {c} :
                          conn'[d] = conn[d] /\ sock'[d] = sock[d] /\ handle'[d] = handle[d]
                ELSE /\ Count(l, "free_conn_data") = 0
                     /\ conn' = conn /\ sock' = sock /\ handle' = handle
                     /\ ops' = {}
      ]_vars

\* C18 witness: the pump has disposed of an errored connection task whose
\* user-data was NULL (no record destroyed, its socket still open) and of a
\* completed task whose record it destroyed.
C18_Witness ==
    /\ \E t \in ConnIds :
         /\ task[t].st = "freed" /\ task[t].ud = NULL
         /\ task[t].type = "HYPER_TASK_ERROR"
         /\ Count(task[t].tlog, "free_conn_data") = 0
         /\ sock[t].open
    /\ \E u \in ConnIds :
         /\ task[u].st = "freed" /\ task[u].ud = u
         /\ conn[u].st = "freed"
         /\ Count(task[u].tlog, "free_conn_data") = 1

\* The live records that hold descriptor fd.
OwnersOf(fd) == {d \in ConnIds : conn[d].st = "live" /\ conn[d].fd = fd}

\* C19: while main runs its loop, every accepted descriptor that is open is
\* held by exactly one live record, every live record holds an open descriptor,
\* and no two live records hold the same one.
C19_FdOwnedByOneRecord ==
    InLoop =>
       /\ \A c \in ConnIds : sock[c].open => Cardinality(OwnersOf(sock[c].fd)) = 1
       /\ \A c \in ConnIds : conn[c].st = "live" => sock[c].open /\ sock[c].fd = conn[c].fd
       /\ \A c, d \in ConnIds :
            (c # d /\ conn[c].st = "live" /\ conn[d].st = "live") => conn[c].fd # conn[d].fd

\* Pointer p names a record that exists and was not destroyed.
LiveRecord(p) == p # NULL /\ conn[p].st = "live"

\* C20: every record pointer is live where it is dereferenced: the user-data of
\* the io of a task the engine is about to call read_cb or write_cb on, the
\* key of every connection event still to be handled by the fan-out, and the
\* non-NULL user-data of a completed task the pump is about to take.
C20_RecordPointersLive ==
    /\ \A t \in TaskIds : Pollable(t) => LiveRecord(task[t].io)
    /\ pc = "fanout" => \A e \in events : e.kind = "conn" => LiveRecord(e.id)
    /\ \A t \in TaskIds :
         (pc = "pump" /\ task[t].st = "complete" /\ task[t].ud # NULL)
            => LiveRecord(task[t].ud)

====
